---- MODULE Spec2Model ----
(***************************************************************************)
(* MPEG audio frame-header parsing and frame chaining of src/mp3.c:        *)
(* ReadMPAHeader, GetFirstHeader, GetNextHeader, GetID3v2TagSize and the   *)
(* scanning loop of main.                                                  *)
(*                                                                         *)
(* Memory is a function from addresses to bytes.  ReadFile allocates       *)
(* size + 1 bytes at MemBase and stores '\0' after the file's bytes, so    *)
(* addresses MemBase..MemBase+size are inside the allocation.  A read      *)
(* beyond MemBase+size is outside it: it yields whatever byte lies there,  *)
(* any of 0..255, chosen nondeterministically the first time a result      *)
(* depends on it and kept in past from then on (nothing in the program     *)
(* writes there).  NULL is 0.                                              *)
(***************************************************************************)
EXTENDS Integers, Sequences, FiniteSets, TLC

VARIABLES mem, size, pc, header, prev, argFirst, argLast, nHeaders, nCalls, tagSize, fault,
          maxParsed, past

vars == <<mem, size, pc, header, prev, argFirst, argLast, nHeaders, nCalls, tagSize, fault,
         maxParsed, past>>

(***************************************************************************)
(* Bounds of the model.                                                    *)
(***************************************************************************)
\* Address malloc returned for the file buffer (non-NULL, mp3.c:396).
MemBase == 16
\* Longest file, in bytes, of the byte-by-byte scanning specification.
MaxLen == 4
\* Largest number of back-to-back frames of the constant-bitrate streams.
MaxFrames == 3
\* Most GetNextHeader calls one caller of the scanning specification makes.
MaxCalls == 5

(***************************************************************************)
(* Program constants.                                                      *)
(***************************************************************************)
MPEG_V1  == 1
MPEG_V2  == 2
MPEG_V25 == 3

CHANNEL_MODE_STEREO       == 1
CHANNEL_MODE_JOINT_STEREO == 2
CHANNEL_MODE_DUAL         == 3
CHANNEL_MODE_MONO         == 4

EMPHASIS_NONE      == 1
EMPHASIS_50_15_MS  == 2
EMPHASIS_CCITT_J17 == 3

\* int nHeaders = 50 in main.
N_HEADERS == 50

(***************************************************************************)
(* Bit-level helpers.  A 32-bit word is a function from bit positions      *)
(* 0..31 (0 the least significant) to bits.                                *)
(***************************************************************************)
Pow2(k) == 2 ^ k

\* Bit k of the byte b.
ByteBit(b, k) == (b \div Pow2(k)) % 2

RECURSIVE BitAnd(_, _)
\* a & b on non-negative integers.
BitAnd(a, b) ==
    IF a = 0 \/ b = 0 THEN 0
    ELSE (IF a % 2 = 1 /\ b % 2 = 1 THEN 1 ELSE 0) + 2 * BitAnd(a \div 2, b \div 2)

RECURSIVE BitOr(_, _)
\* a | b on non-negative integers.
BitOr(a, b) ==
    IF a = 0 THEN b
    ELSE IF b = 0 THEN a
    ELSE (IF a % 2 = 1 \/ b % 2 = 1 THEN 1 ELSE 0) + 2 * BitOr(a \div 2, b \div 2)

\* value stored into a uint16_t.
ToUint16(x) == x % 65536

\* (bool) x
ToBool(x) == x # 0

\* uint32_t data = (headerLoc[0] << 24) | (headerLoc[1] << 16) | (headerLoc[2] << 8) | headerLoc[3]
\* The four shifted bytes occupy disjoint bit ranges: bit i of data is bit
\* i % 8 of headerLoc[3 - i \div 8].  (headerLoc[0] << 24 is evaluated in int;
\* the conversion to uint32_t keeps the bit pattern.)
HeaderWord(m, loc) == [i \in 0..31 |-> ByteBit(m[loc + 3 - (i \div 8)], i % 8)]

RECURSIVE FieldValue(_, _, _)
\* (data & mask) >> lo for the mask whose set bits are exactly lo..hi.
FieldValue(data, hi, lo) ==
    IF hi < lo THEN 0 ELSE data[lo] + 2 * FieldValue(data, hi, lo + 1)

\* (data & 0b111111111110...0) == 0b111111111110...0
SyncOk(data) == \A i \in 21..31 : data[i] = 1

mpegVersionBits(data) == FieldValue(data, 20, 19)
mpegLayerBits(data)   == FieldValue(data, 18, 17)
crcEnabledBits(data)  == FieldValue(data, 16, 16)
bitrateBits(data)     == FieldValue(data, 15, 12)
samplerateBits(data)  == FieldValue(data, 11, 10)
paddingBits(data)     == FieldValue(data, 9, 9)
cmBits(data)          == FieldValue(data, 7, 6)
cmeBits(data)         == FieldValue(data, 5, 4)
copyrightBits(data)   == FieldValue(data, 3, 3)
originalBits(data)    == FieldValue(data, 2, 2)
emphasisBits(data)    == FieldValue(data, 1, 0)

(***************************************************************************)
(* The header record.  INVALID_HEADER is ((mpa_header) {0}).               *)
(***************************************************************************)
INVALID_HEADER ==
    [valid |-> FALSE, location |-> 0, frameSize |-> 0,
     mpegVersion |-> 0, mpegLayer |-> 0, crcEnabled |-> FALSE,
     bitrate |-> 0, samplerate |-> 0, framePadded |-> FALSE,
     channelMode |-> 0, cmLayer2BandLower |-> 0, cmLayer2BandUpper |-> 0,
     cmLayer3IntensityStereo |-> FALSE, cmLayer3MSStereo |-> FALSE,
     copyrightFlag |-> FALSE, originalFlag |-> FALSE, emphasisMode |-> 0]

\* hdr.mpegVersion after the version if-chain; 0 stands for "return INVALID_HEADER".
MpegVersion(vbits) ==
    IF vbits = 0 THEN MPEG_V25
    ELSE IF vbits = 2 THEN MPEG_V2
    ELSE IF vbits = 3 THEN MPEG_V1
    ELSE 0

\* hdr.mpegLayer after the layer if-chain; 0 stands for "return INVALID_HEADER".
MpegLayer(lbits) ==
    IF lbits = 1 THEN 3
    ELSE IF lbits = 2 THEN 2
    ELSE IF lbits = 3 THEN 1
    ELSE 0

\* One case of the bitrate switch: the MPEG1 branch picks by layer, the
\* other branch picks the layer-1 value or the shared layer-2/3 value.
BitrateCase(version, layer, v1l1, v1l2, v1l3, v2l1, v2lx) ==
    IF version = MPEG_V1
    THEN IF layer = 1 THEN v1l1
         ELSE IF layer = 2 THEN v1l2
         ELSE IF layer = 3 THEN v1l3
         ELSE 0
    ELSE IF layer = 1 THEN v2l1 ELSE v2lx

\* hdr.bitrate after switch (bitrateBits), for bitrateBits in 0..14.
Bitrate(bbits, version, layer) ==
    ToUint16(
      CASE bbits = 0  -> 0
        [] bbits = 1  -> BitrateCase(version, layer,  32,  32,  32,  32,   8)
        [] bbits = 2  -> BitrateCase(version, layer,  64,  48,  40,  48,  16)
        [] bbits = 3  -> BitrateCase(version, layer,  96,  56,  48,  56,  24)
        [] bbits = 4  -> BitrateCase(version, layer, 128,  64,  56,  64,  32)
        [] bbits = 5  -> BitrateCase(version, layer, 160,  80,  64,  80,  40)
        [] bbits = 6  -> BitrateCase(version, layer, 192,  96,  80,  96,  48)
        [] bbits = 7  -> BitrateCase(version, layer, 224, 112,  96, 112,  56)
        [] bbits = 8  -> BitrateCase(version, layer, 256, 128, 112, 128,  64)
        [] bbits = 9  -> BitrateCase(version, layer, 288, 160, 128, 144,  80)
        [] bbits = 10 -> BitrateCase(version, layer, 320, 192, 160, 190,  96)
        [] bbits = 11 -> BitrateCase(version, layer, 352, 224, 192, 176, 112)
        [] bbits = 12 -> BitrateCase(version, layer, 384, 256, 224, 192, 128)
        [] bbits = 13 -> BitrateCase(version, layer, 416, 320, 256, 224, 144)
        [] bbits = 14 -> BitrateCase(version, layer, 448, 384, 320, 256, 160)
        [] OTHER      -> 0)


\* The sample-rate switch with the MPEG2.5 branch of case 0b10 missing, so
\* hdr.samplerate keeps its initial 0 there.
SamplerateMissingBranch(srbits, version) ==
    ToUint16(
      CASE srbits = 0 -> (IF version = MPEG_V1 THEN 44100
                          ELSE IF version = MPEG_V2 THEN 22050
                          ELSE IF version = MPEG_V25 THEN 11025 ELSE 0)
        [] srbits = 1 -> (IF version = MPEG_V1 THEN 48000
                          ELSE IF version = MPEG_V2 THEN 24000
                          ELSE IF version = MPEG_V25 THEN 12000 ELSE 0)
        [] srbits = 2 -> (IF version = MPEG_V1 THEN 32000
                          ELSE IF version = MPEG_V2 THEN 16000
                          ELSE 0)
        [] OTHER      -> 0)

\* hdr.samplerate after switch (samplerateBits), for samplerateBits in 0..2.
Samplerate(srbits, version) ==
    ToUint16(
      CASE srbits = 0 -> (IF version = MPEG_V1 THEN 44100
                          ELSE IF version = MPEG_V2 THEN 22050
                          ELSE IF version = MPEG_V25 THEN 11025 ELSE 0)
        [] srbits = 1 -> (IF version = MPEG_V1 THEN 48000
                          ELSE IF version = MPEG_V2 THEN 24000
                          ELSE IF version = MPEG_V25 THEN 12000 ELSE 0)
        [] srbits = 2 -> (IF version = MPEG_V1 THEN 32000
                          ELSE IF version = MPEG_V2 THEN 16000
                          ELSE IF version = MPEG_V25 THEN 8000 ELSE 0)
        [] OTHER      -> 0)

\* The frame size with the product bitrate * 1000 kept in 16 bits, as if it
\* were computed in the uint16_t type of hdr.bitrate.
FrameSizeNarrowProduct(bitrate, samplerate, padded) ==
    IF samplerate = 0 THEN 0
    ELSE ((144 * ToUint16(bitrate * 1000)) \div samplerate)
         + (IF padded THEN 1 ELSE 0)

\* hdr.frameSize = 144 * (hdr.bitrate * 1000) / hdr.samplerate; +1 if padded.
\* The operands are promoted to int; both are non-negative, so C's division
\* is \div.  With samplerate = 0 the division traps (see DividesByZero) and
\* no value is produced; 0 stands in for it.
FrameSize(bitrate, samplerate, padded) ==
    IF samplerate = 0 THEN 0
    ELSE ((144 * (bitrate * 1000)) \div samplerate)
         + (IF padded THEN 1 ELSE 0)

\* The sync test comparing only the first byte (the top 8 bits).
HeaderAcceptedShortSync(data) ==
    /\ \A i \in 24..31 : data[i] = 1
    /\ MpegVersion(mpegVersionBits(data)) # 0
    /\ MpegLayer(mpegLayerBits(data)) # 0
    /\ bitrateBits(data) # 15
    /\ samplerateBits(data) # 3

\* ReadMPAHeader reaches the end without a "return INVALID_HEADER".
HeaderAccepted(data) ==
    /\ SyncOk(data)
    /\ MpegVersion(mpegVersionBits(data)) # 0
    /\ MpegLayer(mpegLayerBits(data)) # 0
    /\ bitrateBits(data) # 15
    /\ samplerateBits(data) # 3

\* hdr.channelMode
ChannelMode(cm) ==
    IF cm = 0 THEN CHANNEL_MODE_STEREO
    ELSE IF cm = 1 THEN CHANNEL_MODE_JOINT_STEREO
    ELSE IF cm = 2 THEN CHANNEL_MODE_DUAL
    ELSE IF cm = 3 THEN CHANNEL_MODE_MONO
    ELSE 0

\* hdr.cmLayer2BandLower, set for layers 1 and 2 only.
BandLower(layer, cme) ==
    IF layer = 3 THEN 0
    ELSE IF cme = 0 THEN 4
    ELSE IF cme = 1 THEN 8
    ELSE IF cme = 2 THEN 12
    ELSE IF cme = 3 THEN 16
    ELSE 0

\* hdr.emphasisMode; emphasis bits 0b11 leave the initial 0.
EmphasisMode(e) ==
    IF e = 0 THEN EMPHASIS_NONE
    ELSE IF e = 1 THEN EMPHASIS_50_15_MS
    ELSE IF e = 2 THEN EMPHASIS_CCITT_J17
    ELSE 0

\* mpa_header ReadMPAHeader (uint8_t* headerLoc), reading memory m.
ReadMPAHeader(m, headerLoc) ==
    LET data    == HeaderWord(m, headerLoc)
        version == MpegVersion(mpegVersionBits(data))
        layer   == MpegLayer(mpegLayerBits(data))
        bitrate == Bitrate(bitrateBits(data), version, layer)
        srate   == Samplerate(samplerateBits(data), version)
        padded  == ToBool(paddingBits(data))
    IN  IF ~HeaderAccepted(data) THEN INVALID_HEADER
        ELSE [valid |-> TRUE,
              location |-> headerLoc,
              frameSize |-> FrameSize(bitrate, srate, padded),
              mpegVersion |-> version,
              mpegLayer |-> layer,
              crcEnabled |-> ToBool(crcEnabledBits(data)),
              bitrate |-> bitrate,
              samplerate |-> srate,
              framePadded |-> padded,
              channelMode |-> ChannelMode(cmBits(data)),
              cmLayer2BandLower |-> BandLower(layer, cmeBits(data)),
              cmLayer2BandUpper |-> (IF layer = 3 THEN 0 ELSE 31),
              cmLayer3IntensityStereo |->
                  (layer = 3 /\ (cmeBits(data) = 1 \/ cmeBits(data) = 2)),
              cmLayer3MSStereo |->
                  (layer = 3 /\ (cmeBits(data) = 2 \/ cmeBits(data) = 3)),
              copyrightFlag |-> ToBool(copyrightBits(data)),
              originalFlag |-> ToBool(originalBits(data)),
              emphasisMode |-> EmphasisMode(emphasisBits(data))]

\* ReadMPAHeader(headerLoc) executes the division of the frame-size line with
\* hdr.samplerate = 0 (SIGFPE instead of a returned header).
DividesByZero(m, headerLoc) ==
    LET data == HeaderWord(m, headerLoc)
    IN  /\ HeaderAccepted(data)
        /\ Samplerate(samplerateBits(data),
                      MpegVersion(mpegVersionBits(data))) = 0

(***************************************************************************)
(* Frame scanning.                                                         *)
(***************************************************************************)
RECURSIVE ScanLoop(_, _, _, _)
\* while (nextHdr.valid == false && firstLoc <= lastLoc)
\*     { nextHdr = ReadMPAHeader(firstLoc); ++firstLoc; }
ScanLoop(m, nextHdr, firstLoc, lastLoc) ==
    IF nextHdr.valid = FALSE /\ firstLoc <= lastLoc
    THEN ScanLoop(m, ReadMPAHeader(m, firstLoc), firstLoc + 1, lastLoc)
    ELSE nextHdr

\* The scan stopping one candidate early: firstLoc < lastLoc.
GetFirstHeaderExclusiveEnd(m, firstLoc, lastLoc) ==
    ScanLoop(m, INVALID_HEADER, firstLoc, lastLoc - 1)

\* mpa_header GetFirstHeader (uint8_t* firstLoc, uint8_t* lastLoc)
GetFirstHeader(m, firstLoc, lastLoc) ==
    ScanLoop(m, INVALID_HEADER, firstLoc, lastLoc)

\* The next search starting one byte after the computed frame end.
GetNextHeaderSkipOne(m, lastHdr, lastLoc) ==
    GetFirstHeader(m, lastHdr.location + lastHdr.frameSize + 1, lastLoc)

\* mpa_header GetNextHeader (mpa_header* lastHdr, uint8_t* lastLoc)
GetNextHeader(m, lastHdr, lastLoc) ==
    GetFirstHeader(m, lastHdr.location + lastHdr.frameSize, lastLoc)

\* Some candidate the scan of firstLoc..lastLoc parses divides by zero before
\* the scan has found a valid header.
ScanDividesByZero(m, firstLoc, lastLoc) ==
    \E a \in firstLoc..lastLoc :
        /\ DividesByZero(m, a)
        /\ \A b \in firstLoc..(a - 1) : ~HeaderAccepted(HeaderWord(m, b))

\* The last candidate location the scan of firstLoc..lastLoc hands to
\* ReadMPAHeader: the location of the header it returns, lastLoc when it finds
\* none, 0 (no location) when the loop body never runs.
ScanLastParsed(m, firstLoc, lastLoc) ==
    LET found == GetFirstHeader(m, firstLoc, lastLoc)
    IN  IF firstLoc > lastLoc THEN 0
        ELSE IF found.valid THEN found.location
        ELSE lastLoc

\* The larger of two locations.
Max(a, b) == IF a >= b THEN a ELSE b

(***************************************************************************)
(* ID3v2 tag size.                                                         *)
(***************************************************************************)
\* size_t GetID3v2TagSize (uint8_t* loc); 'I' = 73, 'D' = 68, '3' = 51.
GetID3v2TagSize(m, loc) ==
    IF m[loc] = 73 /\ m[loc + 1] = 68 /\ m[loc + 2] = 51
    THEN LET l0 == m[loc + 6]
             l1 == m[loc + 7]
             l2 == m[loc + 8]
             l3 == m[loc + 9]
             length == BitOr(BitOr(BitOr(l0 * Pow2(21), l1 * Pow2(14)),
                                   l2 * Pow2(7)), l3)
             hasFooter == ToBool(BitAnd(m[loc + 5], 16) \div Pow2(4))
         IN  IF hasFooter THEN length + 20 ELSE length + 10
    ELSE 0

\* The last address GetID3v2TagSize(loc) reads: the && chain stops at the
\* first byte that differs from "ID3".
TagLastRead(m, loc) ==
    IF m[loc] # 73 THEN loc
    ELSE IF m[loc + 1] # 68 THEN loc + 1
    ELSE IF m[loc + 2] # 51 THEN loc + 2
    ELSE loc + 9

(***************************************************************************)
(* Memory as the calls see it.                                             *)
(***************************************************************************)
\* Bytes a read outside the allocation may yield: any value of a uint8_t.
OobBytes == 0..255

\* The address of the terminating '\0' (mem[size] = '\0' in ReadFile); also
\* main's lastLoc.
EndLoc == MemBase + size

\* No byte past the allocation has been looked at.
NoPast == [a \in {} |-> 0]

\* The highest address of a view (a view starts at MemBase and has no gaps).
Top(v) == MemBase + Cardinality(DOMAIN v) - 1

\* Memory as far as it is known before a call: the allocation, then the bytes
\* past it that earlier calls found there.
Seen ==
    LET end == EndLoc
    IN  IF past = NoPast THEN mem
        ELSE [a \in MemBase..(end + Cardinality(DOMAIN past)) |->
                 IF a <= end THEN mem[a] ELSE past[a]]

\* The ways memory up to address hi can look: what is known of it as it is,
\* every byte beyond that any of OobBytes.
Views(hi) ==
    LET seen == Seen
        top  == Top(seen)
    IN  { [a \in MemBase..Max(hi, top) |-> IF a <= top THEN seen[a] ELSE g[a]] :
          g \in [(top + 1)..hi -> OobBytes] }

\* The view v and one more byte behind it, any of OobBytes.
Extend1(v) ==
    LET top == Top(v)
    IN  { [a \in MemBase..(top + 1) |-> IF a <= top THEN v[a] ELSE b] :
          b \in OobBytes }

\* The view v up to address hi, with 0 standing at the addresses v does not
\* reach: bytes that are read but that no test or field depends on.
Pad(v, hi) ==
    LET top == Top(v)
    IN  IF hi <= top THEN v
        ELSE [a \in MemBase..hi |-> IF a <= top THEN v[a] ELSE 0]

\* The bytes past the allocation that the view v fixes.
PastOf(v) == [a \in (EndLoc + 1)..Top(v) |-> v[a]]

\* ReadMPAHeader(headerLoc) returns INVALID_HEADER whatever lies behind the
\* view v, which holds fewer than four bytes of the word: headerLoc[0] has a
\* sync bit clear; or headerLoc[1] is known and the sync, version or layer
\* test fails; or headerLoc[2] is known too and some test fails.  (No test
\* looks at headerLoc[3].)
RejectedByPrefix(v, headerLoc) ==
    LET data  == HeaderWord(Pad(v, headerLoc + 3), headerLoc)
        known == Top(v) - headerLoc + 1
    IN  \/ \E i \in 24..31 : data[i] = 0
        \/ /\ known >= 2
           /\ ~(/\ SyncOk(data)
                /\ MpegVersion(mpegVersionBits(data)) # 0
                /\ MpegLayer(mpegLayerBits(data)) # 0)
        \/ /\ known >= 3
           /\ ~HeaderAccepted(data)

RECURSIVE ScanViews(_, _, _)
\* The views of memory that decide the scan of firstLoc..lastLoc starting from
\* the view v: v is extended one byte at a time, and only when a candidate's
\* fate or the header returned depends on that byte.  Every memory the scan
\* can meet extends exactly one of them, and the scan does the same on all
\* memories that extend the same one.
ScanViews(v, firstLoc, lastLoc) ==
    IF firstLoc > lastLoc THEN {v}
    ELSE IF firstLoc + 3 <= Top(v)
    THEN IF HeaderAccepted(HeaderWord(v, firstLoc)) THEN {v}
         ELSE ScanViews(v, firstLoc + 1, lastLoc)
    ELSE IF RejectedByPrefix(v, firstLoc)
    THEN ScanViews(v, firstLoc + 1, lastLoc)
    ELSE UNION { ScanViews(w, firstLoc, lastLoc) : w \in Extend1(v) }

\* The file image ReadFile builds from the byte sequence bytes.
FileImage(bytes) ==
    [a \in MemBase..(MemBase + Len(bytes)) |->
        IF a < MemBase + Len(bytes) THEN bytes[a - MemBase + 1] ELSE 0]

RECURSIVE SeqsUpTo(_, _)
\* The sequences over S of length at most n.
SeqsUpTo(S, n) ==
    IF n = 0 THEN {<<>>}
    ELSE LET shorter == SeqsUpTo(S, n - 1)
         IN  shorter \cup { Append(q, x) : q \in {r \in shorter : Len(r) = n - 1}, x \in S }

(***************************************************************************)
(* Initial states: the file image ReadFile leaves in memory, before any    *)
(* call.                                                                   *)
(***************************************************************************)
Loaded(bytes) ==
    /\ mem = FileImage(bytes)
    /\ size = Len(bytes)
    /\ pc = "idle"
    /\ header = INVALID_HEADER
    /\ prev = INVALID_HEADER
    /\ argFirst = 0
    /\ argLast = 0
    /\ nHeaders = N_HEADERS
    /\ nCalls = 0
    /\ tagSize = 0
    /\ fault = "none"
    /\ maxParsed = 0
    /\ past = NoPast

\* Bytes of the short files that are scanned byte by byte: 0xFF (sync; as a
\* second byte MPEG1 Layer1), 0x00 (as a third byte free format, unpadded),
\* 0xE2 (as a second byte MPEG2.5 Layer3, as a third byte bitrate index 1110,
\* padded; it lets two valid headers overlap).
ScanBytes == {0, 226, 255}

Init == \E bytes \in SeqsUpTo(ScanBytes, MaxLen) : Loaded(bytes)

\* Four-byte words: first byte with and without all sync bits; second byte
\* with the low three sync bits 111, 110 or 011 and every version, layer and
\* CRC bit; every third byte; three fourth bytes.
InitParse ==
    \E b0 \in {255, 127}, b1 \in 0..255, b2 \in 0..255, b3 \in {0, 107, 255} :
        /\ b1 \div 32 \in {7, 6, 3}
        /\ Loaded(<<b0, b1, b2, b3>>)

\* Ten-byte ID3v2 headers: magic "ID3" or a near miss, version 3.0, flags,
\* four size bytes with and without the high bit.
InitTag ==
    \E magic \in { <<73, 68, 51>>, <<73, 68, 50>>, <<73, 100, 51>>,
                   <<105, 68, 51>>, <<0, 0, 0>> },
       fl \in {0, 16, 239, 255} :
        \E s0 \in {0, 1, 2, 127, 128, 255}, s1 \in {0, 1, 2, 127, 128, 255},
           s2 \in {0, 1, 2, 127, 128, 255}, s3 \in {0, 1, 2, 127, 128, 255} :
            Loaded(magic \o <<3, 0, fl, s0, s1, s2, s3>>)

\* Headers of constant-bitrate frames (none free format):
\* MPEG2 L3 8k/24000, the same padded, MPEG2 L3 8k/22050, MPEG2.5 L3 8k/12000,
\* MPEG2 L1 32k/24000, MPEG1 L3 128k/44100.
CbrHeaders ==
    { <<255, 243, 20, 0>>, <<255, 243, 22, 196>>, <<255, 243, 16, 0>>,
      <<255, 227, 20, 0>>, <<255, 247, 20, 64>>, <<255, 251, 144, 0>> }

\* The frame-size field ReadMPAHeader computes for a header word.
FrameSizeOf(hw) == ReadMPAHeader(FileImage(hw), MemBase).frameSize

\* One frame: the header, then payload repeating the 4-byte pattern fill.
Frame(hw, fill) ==
    [i \in 1..FrameSizeOf(hw) |-> IF i <= 4 THEN hw[i] ELSE fill[((i - 1) % 4) + 1]]

RECURSIVE Repeat(_, _)
Repeat(f, k) == IF k = 0 THEN <<>> ELSE f \o Repeat(f, k - 1)

\* Payload patterns: zeros, all ones, and copies of the frame's own header.
CbrFills(hw) == { <<0, 0, 0, 0>>, <<255, 255, 255, 255>>, hw }

InitCBR ==
    \E hw \in CbrHeaders, k \in 1..MaxFrames :
        \E fill \in CbrFills(hw) : Loaded(Repeat(Frame(hw, fill), k))

(***************************************************************************)
(* Actions: one per call.                                                  *)
(***************************************************************************)
\* A call ReadMPAHeader(mem) on the start of the buffer.
ReadHeaderCall ==
    /\ pc = "idle"
    /\ maxParsed' = Max(maxParsed, MemBase)
    /\ \E m \in Views(MemBase + 3) :
          /\ past' = PastOf(m)
          /\ IF DividesByZero(m, MemBase)
             THEN /\ fault' = "SIGFPE"
                  /\ pc' = "crashed"
                  /\ header' = header
             ELSE /\ fault' = fault
                  /\ pc' = "parsed"
                  /\ header' = ReadMPAHeader(m, MemBase)
    /\ UNCHANGED <<mem, size, prev, argFirst, argLast, nHeaders, nCalls, tagSize>>

\* A call GetID3v2TagSize(mem).
TagSizeCall ==
    /\ pc = "idle"
    /\ \E m \in Views(TagLastRead(mem, MemBase)) :
          /\ past' = PastOf(m)
          /\ tagSize' = GetID3v2TagSize(m, MemBase)
    /\ pc' = "tagged"
    /\ UNCHANGED <<mem, size, header, prev, argFirst, argLast, nHeaders, nCalls, fault,
                   maxParsed>>

\* A call GetFirstHeader(firstLoc, lastLoc) on a window of the buffer.
GetFirstHeaderCall ==
    /\ pc = "idle"
    /\ \E firstLoc \in MemBase..(EndLoc + 1), lastLoc \in MemBase..EndLoc :
          /\ argFirst' = firstLoc
          /\ argLast' = lastLoc
          /\ \E v \in ScanViews(Seen, firstLoc, lastLoc) :
             LET m == Pad(v, lastLoc + 3)
             IN /\ past' = PastOf(v)
                /\ maxParsed' = Max(maxParsed, ScanLastParsed(m, firstLoc, lastLoc))
                /\ IF ScanDividesByZero(m, firstLoc, lastLoc)
                   THEN /\ fault' = "SIGFPE"
                        /\ pc' = "crashed"
                        /\ header' = header
                   ELSE /\ fault' = fault
                        /\ pc' = "iter"
                        /\ header' = GetFirstHeader(m, firstLoc, lastLoc)
    /\ UNCHANGED <<mem, size, prev, nHeaders, nCalls, tagSize>>

\* main up to the first header: firstLoc = mem + GetID3v2TagSize(mem),
\* lastLoc = mem + size, firstHeader = GetFirstHeader(firstLoc, lastLoc).
MainFirst ==
    /\ pc = "idle"
    /\ \E mt \in Views(TagLastRead(mem, MemBase)) :
          /\ tagSize' = GetID3v2TagSize(mt, MemBase)
          /\ argFirst' = MemBase + GetID3v2TagSize(mt, MemBase)
          /\ argLast' = EndLoc
          /\ \E v \in ScanViews(mt, argFirst', EndLoc) :
             LET m == Pad(v, EndLoc + 3)
             IN /\ past' = PastOf(v)
                /\ maxParsed' = Max(maxParsed, ScanLastParsed(m, argFirst', EndLoc))
                /\ IF ScanDividesByZero(m, argFirst', EndLoc)
                   THEN /\ fault' = "SIGFPE"
                        /\ pc' = "crashed"
                        /\ header' = header
                   ELSE /\ fault' = fault
                        /\ pc' = "iter"
                        /\ header' = GetFirstHeader(m, argFirst', EndLoc)
    /\ UNCHANGED <<mem, size, prev, nHeaders, nCalls>>

\* A call header = GetNextHeader(&header, lastLoc) by a caller that goes on
\* while the header it holds is valid, with the window's lastLoc.
GetNextHeaderCall ==
    /\ pc = "iter"
    /\ header.valid
    /\ nCalls < MaxCalls
    /\ nCalls' = nCalls + 1
    /\ prev' = header
    /\ \E v \in ScanViews(Seen, header.location + header.frameSize, argLast) :
       LET m == Pad(v, argLast + 3)
       IN /\ past' = PastOf(v)
          /\ maxParsed' = Max(maxParsed,
                   ScanLastParsed(m, header.location + header.frameSize, argLast))
          /\ IF ScanDividesByZero(m, header.location + header.frameSize, argLast)
             THEN /\ fault' = "SIGFPE"
                  /\ pc' = "crashed"
                  /\ header' = header
             ELSE /\ fault' = fault
                  /\ pc' = "iter"
                  /\ header' = GetNextHeader(m, header, argLast)
    /\ UNCHANGED <<mem, size, argFirst, argLast, nHeaders, tagSize>>

\* One turn of main's loop: while (header.valid && nHeaders > 0)
\*     { print; --nHeaders; header = GetNextHeader(&header, lastLoc); }
MainLoopStep ==
    /\ pc = "iter"
    /\ header.valid
    /\ nHeaders > 0
    /\ nHeaders' = nHeaders - 1
    /\ prev' = header
    /\ \E v \in ScanViews(Seen, header.location + header.frameSize, argLast) :
       LET m == Pad(v, argLast + 3)
       IN /\ past' = PastOf(v)
          /\ maxParsed' = Max(maxParsed,
                   ScanLastParsed(m, header.location + header.frameSize, argLast))
          /\ IF ScanDividesByZero(m, header.location + header.frameSize, argLast)
             THEN /\ fault' = "SIGFPE"
                  /\ pc' = "crashed"
                  /\ header' = header
             ELSE /\ fault' = fault
                  /\ pc' = "iter"
                  /\ header' = GetNextHeader(m, header, argLast)
    /\ UNCHANGED <<mem, size, argFirst, argLast, nCalls, tagSize>>

Next == GetFirstHeaderCall \/ GetNextHeaderCall
Spec == Init /\ [][Next]_vars

\* One GetFirstHeader call on a window of a short file.
NextFirst == GetFirstHeaderCall
SpecFirst == Init /\ [][NextFirst]_vars

NextParse == ReadHeaderCall
SpecParse == InitParse /\ [][NextParse]_vars

NextTag == TagSizeCall
SpecTag == InitTag /\ [][NextTag]_vars

NextCBR == MainFirst \/ MainLoopStep
SpecCBR == InitCBR /\ [][NextCBR]_vars

\* main on the short files of Init.
NextMain == MainFirst \/ MainLoopStep
SpecMain == Init /\ [][NextMain]_vars

(***************************************************************************)
(* Properties of ReadMPAHeader, checked under SpecParse.                   *)
(***************************************************************************)
\* The four bytes of the word at the start of the buffer and the raw fields
\* of the header layout, read off the bytes by position.
Byte0 == mem[MemBase]
Byte1 == mem[MemBase + 1]
Byte2 == mem[MemBase + 2]
Byte3 == mem[MemBase + 3]
RawSyncAllSet == Byte0 = 255 /\ Byte1 \div 32 = 7
RawVersion    == (Byte1 \div 8) % 4
RawLayer      == (Byte1 \div 2) % 4
RawBitrate    == Byte2 \div 16
RawSamplerate == (Byte2 \div 4) % 4
RawPadding    == (Byte2 \div 2) % 2

\* C1: ReadMPAHeader returns a valid header exactly when the 11 sync bits
\* are all set, the version bits are not 01, the layer bits are not 00, the
\* bitrate index is not 1111 and the sample-rate index is not 11; every other
\* word yields INVALID_HEADER.
C1_ValidIffFieldsAllowed ==
    pc = "parsed" =>
        /\ header.valid <=>
              (/\ RawSyncAllSet
               /\ RawVersion # 1
               /\ RawLayer # 0
               /\ RawBitrate # 15
               /\ RawSamplerate # 3)
        /\ (~header.valid => header = INVALID_HEADER)

\* C1 witness: a word with all sync bits set and only allowed field values
\* has been parsed as valid, here an MPEG2.5 Layer 2 one.
C1_Witness ==
    /\ pc = "parsed"
    /\ header.valid
    /\ RawVersion = 0
    /\ RawLayer = 2

\* The bitrate table of the comment above the bitrate switch, rows 0001..1110,
\* columns V1L1, V1L2, V1L3, V2L1, V2 L2 & L3.
CommentBitrateTable ==
    << << 32,  32,  32,  32,   8>>,
       << 64,  48,  40,  48,  16>>,
       << 96,  56,  48,  56,  24>>,
       <<128,  64,  56,  64,  32>>,
       <<160,  80,  64,  80,  40>>,
       <<192,  96,  80,  96,  48>>,
       <<224, 112,  96, 112,  56>>,
       <<256, 128, 112, 128,  64>>,
       <<288, 160, 128, 144,  80>>,
       <<320, 192, 160, 160,  96>>,
       <<352, 224, 192, 176, 112>>,
       <<384, 256, 224, 192, 128>>,
       <<416, 320, 256, 224, 144>>,
       <<448, 384, 320, 256, 160>> >>

\* The table column of a header: V1L1, V1L2, V1L3 for MPEG1; for MPEG2 and
\* MPEG2.5, V2L1 for layer 1 and the shared column otherwise.
TableColumn(h) ==
    IF h.mpegVersion = MPEG_V1 THEN h.mpegLayer
    ELSE IF h.mpegLayer = 1 THEN 4 ELSE 5

\* C2: for every valid header with bitrate index 0001..1110 the bitrate is the
\* entry of the comment's table for that index and column.
C2_BitrateMatchesCommentTable ==
    (pc = "parsed" /\ header.valid /\ RawBitrate \in 1..14) =>
        header.bitrate = CommentBitrateTable[RawBitrate][TableColumn(header)]

\* C8: for every valid header with non-zero bitrate the frame size is
\* floor(144 * bitrate * 1000 / samplerate), plus 1 when the padding bit is
\* set; the product fits an int and the stored rates are not truncated
\* (128 kbps at 44100 Hz gives 417, padded 418).
C8_FrameSizeFormula ==
    (pc = "parsed" /\ header.valid /\ header.bitrate # 0) =>
        /\ 144 * header.bitrate * 1000 <= 2147483647
        /\ header.frameSize =
              ((144 * header.bitrate * 1000) \div header.samplerate) + RawPadding
        /\ header.framePadded = (RawPadding = 1)
        /\ (header.bitrate = 128 /\ header.samplerate = 44100) =>
              header.frameSize = 417 + RawPadding

\* C8 witness: the padded 128 kbps, 44100 Hz header has been parsed, with
\* frame size 418.
C8_Witness ==
    /\ pc = "parsed"
    /\ header.valid
    /\ header.bitrate = 128
    /\ header.samplerate = 44100
    /\ header.framePadded
    /\ header.frameSize = 418

\* The sample-rate table of the claim, by version bits and sample-rate index.
ClaimSamplerate(vbits, srbits) ==
    IF vbits = 3 THEN <<44100, 48000, 32000>>[srbits + 1]
    ELSE IF vbits = 2 THEN <<22050, 24000, 16000>>[srbits + 1]
    ELSE <<11025, 12000, 8000>>[srbits + 1]

\* C10: for every word that passes the validity checks the sample rate is the
\* table entry for (version, sample-rate index), hence non-zero; no word, free
\* format included, makes the frame-size division divide by zero.
C10_SamplerateNonZero ==
    /\ fault = "none"
    /\ pc # "crashed"
    /\ (pc = "parsed" /\ header.valid) =>
          /\ header.samplerate = ClaimSamplerate(RawVersion, RawSamplerate)
          /\ header.samplerate # 0

\* C10 witness: a free-format MPEG2.5 word with sample-rate index 10 has gone
\* through the division, with bitrate 0 and sample rate 8000.
C10_Witness ==
    /\ pc = "parsed"
    /\ header.valid
    /\ header.bitrate = 0
    /\ header.mpegVersion = MPEG_V25
    /\ header.samplerate = 8000
    /\ header.frameSize = 0

(***************************************************************************)
(* Properties of the scan, checked under Spec and SpecFirst (short files,  *)
(* every window) and SpecCBR (constant-bitrate streams, main's window).    *)
(***************************************************************************)
\* C3: every header record returned by ReadMPAHeader, GetFirstHeader or
\* GetNextHeader is either valid with frameSize >= 4 or the all-zero
\* INVALID_HEADER, free-format words included.
C3_ValidWithFrameOrSentinel ==
    pc \in {"parsed", "iter"} =>
        \/ header.valid /\ header.frameSize >= 4
        \/ header = INVALID_HEADER

\* C4: GetNextHeader called with a valid free-format header whose computed
\* frame size is 0 never returns that header again: it returns a header at a
\* strictly greater location, or INVALID_HEADER.
C4_FreeFormatAdvancePastPrevious ==
    (pc = "iter" /\ nCalls > 0 /\ prev.valid /\ prev.bitrate = 0 /\ prev.frameSize = 0) =>
        \/ header = INVALID_HEADER
        \/ header.valid /\ header.location > prev.location

\* The number of valid headers the pull sequence has yielded so far: every
\* GetNextHeader call was fed a valid one, and the one held now may be valid.
Yielded == nCalls + (IF header.valid THEN 1 ELSE 0)

\* C5: GetFirstHeader followed by repeated GetNextHeader yields no more valid
\* headers than the buffer has candidate offsets (size + 1), so the sequence
\* reaches INVALID_HEADER without a caller-side limit.
C5_YieldBoundedByBuffer ==
    pc = "iter" => Yielded <= size + 1

\* C6: GetFirstHeader(firstLoc, lastLoc) returns the header parsed at the
\* smallest location in firstLoc..lastLoc at which ReadMPAHeader is valid, and
\* INVALID_HEADER when there is none (firstLoc > lastLoc included).
C6_FirstValidInWindow ==
    (pc = "iter" /\ nCalls = 0) =>
        LET v  == Pad(Seen, argLast + 3)
            ok == {a \in argFirst..argLast : ReadMPAHeader(v, a).valid}
        IN  IF ok = {} THEN header = INVALID_HEADER
            ELSE \E o \in ok :
                    /\ \A a \in ok : o <= a
                    /\ header = ReadMPAHeader(v, o)
                    /\ header.location = o

\* C6 witness: the scan has passed an invalid candidate and returned a valid
\* header from inside the window, with a later valid candidate left behind it.
C6_Witness ==
    /\ pc = "iter"
    /\ nCalls = 0
    /\ header.valid
    /\ argFirst < header.location
    /\ header.location < argLast
    /\ \E a \in (header.location + 1)..argLast :
          ReadMPAHeader(Pad(Seen, argLast + 3), a).valid

\* C7: on a buffer of exactly K frames of F bytes each, all starting with the
\* same non-free-format header, main's scan yields the header at offset k * F
\* after k GetNextHeader calls for k < K, and INVALID_HEADER after K calls.
C7_CbrStreamYieldsEveryFrame ==
    pc = "iter" =>
        LET F == ReadMPAHeader(mem, MemBase).frameSize
            K == size \div F
            k == N_HEADERS - nHeaders
        IN  IF k < K
            THEN /\ header.valid
                 /\ header.location = MemBase + k * F
                 /\ header.frameSize = F
            ELSE /\ k = K
                 /\ header = INVALID_HEADER

\* C7 witness: a stream of three frames has yielded its three headers and the
\* fourth call has returned INVALID_HEADER.
C7_Witness ==
    /\ pc = "iter"
    /\ size = 3 * ReadMPAHeader(mem, MemBase).frameSize
    /\ N_HEADERS - nHeaders = 3
    /\ prev.valid
    /\ prev.location = MemBase + 2 * prev.frameSize
    /\ header = INVALID_HEADER

(***************************************************************************)
(* Properties of GetID3v2TagSize, checked under SpecTag.                   *)
(***************************************************************************)
\* The low 7 bits of a byte.
Low7(b) == b % 128

\* C9: the tag size is 0 when the first three bytes are not "ID3"; otherwise
\* it is the base-128 number of the low 7 bits of the bytes at offsets 6..9,
\* plus 20 when bit 4 of the flags byte at offset 5 is set and plus 10
\* otherwise.
C9_TagSizeIsSynchsafe ==
    pc = "tagged" =>
        IF mem[MemBase] = 73 /\ mem[MemBase + 1] = 68 /\ mem[MemBase + 2] = 51
        THEN tagSize =
                 Low7(mem[MemBase + 6]) * 128 * 128 * 128
               + Low7(mem[MemBase + 7]) * 128 * 128
               + Low7(mem[MemBase + 8]) * 128
               + Low7(mem[MemBase + 9])
               + (IF (mem[MemBase + 5] \div 16) % 2 = 1 THEN 20 ELSE 10)
        ELSE tagSize = 0

(***************************************************************************)
(* Properties of the reads of the scan, checked under SpecMain (main's     *)
(* window: firstLoc = mem + tag size, lastLoc = mem + size).               *)
(***************************************************************************)
\* C11: every candidate location the scan hands to ReadMPAHeader has its four
\* bytes inside the buffer of size bytes (offset + 3 < size), so no byte at
\* offset >= size is read.  maxParsed is the largest candidate parsed so far.
C11_ParsedCandidatesInsideBuffer ==
    maxParsed # 0 => maxParsed + 3 < MemBase + size
====
